---------------------------- MODULE Spec2Model ----------------------------
(***************************************************************************)
(* Retrieval building blocks of merlin models: BruteForceTopK,            *)
(* TopKRecommender, ItemsPredictionTopK (blocks/retrieval/top_k.py),      *)
(* ContrastiveDotProduct (predictions/dot_product.py) and                 *)
(* ItemRetrievalTask (prediction/item_prediction.py).                     *)
(*                                                                         *)
(* Tensors are sequences: a vector is a sequence of integers, a matrix a  *)
(* sequence of rows.  Positions returned by top_k are 0-based as in       *)
(* TensorFlow; Sequences are 1-based, so row j of a tensor is M[j + 1].   *)
(***************************************************************************)
EXTENDS Integers, Sequences, FiniteSets, TLC

VARIABLES topk, last, loaded, recommender, cdp, clast, iptk, ilast, task,
          dp, dlast, nlast, agg, alast

vars == <<topk, last, loaded, recommender, cdp, clast, iptk, ilast, task,
          dp, dlast, nlast, agg, alast>>

topkVars == <<topk, last, loaded, recommender>>
cdpVars == <<cdp, clast>>
iptkVars == <<iptk, ilast>>
taskVars == <<task>>
dotVars == <<dp, dlast>>
ibnsVars == <<nlast>>
aggVars == <<agg, alast>>

(***************************************************************************)
(* Bounds of the model.                                                    *)
(***************************************************************************)
\* largest number of candidate rows handed to load_index
MaxN == 3
\* largest batch size
MaxB == 2
\* largest k (constructor or call argument)
MaxK == 3

\* candidate embedding rows (embedding dimension 2); a tensor of n rows
\* alternates them from either one, so that three rows hold a repeated row
CandVecs == <<(<<1, 0>>), (<<0, 2>>)>>
CandBatch(n, s) == [j \in 1..n |-> CandVecs[((j + s) % 2) + 1]]
\* query embedding rows; a batch of b rows alternates them from either one
QueryVecs == <<(<<1, 1>>), (<<1, -1>>)>>
QueryBatch(b, s) == [i \in 1..b |-> QueryVecs[((i + s) % 2) + 1]]
\* the first identifier a caller may pass; the others follow it by one
IdBases == {0, 5}
\* incoming predictions: row i holds the positive score s * i, then a
\* sampled negative's score
PredScales == {3, -2}
PredBatch(b, s) == [i \in 1..b |-> <<s * i, i>>]

(***************************************************************************)
(* Python values.                                                          *)
(***************************************************************************)
\* an optional tensor: None, or a tensor
None == [isNone |-> TRUE, v |-> <<>>]
Some(x) == [isNone |-> FALSE, v |-> x]
\* an optional int (the k argument of call)
NoneInt == [isNone |-> TRUE, v |-> 0]
SomeInt(n) == [isNone |-> FALSE, v |-> n]

NoError == ""
ErrNotLoaded == "ValueError: load_index should be called before"
ErrNot2D == "ValueError: The candidates embeddings tensor must be 2D"
ErrTruth == "ValueError: The truth value of an array with more than one element is ambiguous"
ErrTopK == "InvalidArgumentError: input must have at least k columns"
ErrNotImplemented == "NotImplementedError"

\* all sequences over S of length n, and of length 1..n
SeqN(S, n) == [1..n -> S]
SeqUpTo(S, n) == UNION {SeqN(S, m) : m \in 1..n}

(***************************************************************************)
(* Tensor operations of the framework, as the code uses them.              *)
(***************************************************************************)
RECURSIVE SumSeq(_)
SumSeq(s) == IF s = <<>> THEN 0 ELSE Head(s) + SumSeq(Tail(s))

\* sum over d of a[d] * b[d]
Dot(a, b) == SumSeq([d \in 1..Len(a) |-> a[d] * b[d]])

\* tf.matmul(A, B, transpose_b=True): out[i][j] = A[i] . B[j]
MatMulT(A, B) == [i \in 1..Len(A) |-> [j \in 1..Len(B) |-> Dot(A[i], B[j])]]

\* tf.range(n) = 0, 1, ..., n-1
Range(n) == [j \in 1..n |-> j - 1]

\* position (1-based) of the largest entry of row among the positions in
\* left; the lowest position wins a tie, as tf.math.top_k orders equal values
ArgMax(row, left) ==
    CHOOSE j \in left :
        \A m \in left : row[j] > row[m] \/ (row[j] = row[m] /\ j <= m)

RECURSIVE TopKRow(_, _, _)
\* the k largest entries of one row in descending order, as <<value, 0-based
\* position>> pairs
TopKRow(row, k, left) ==
    IF k = 0 THEN <<>>
    ELSE LET j == ArgMax(row, left)
         IN <<(<<row[j], j - 1>>)>> \o TopKRow(row, k - 1, left \ {j})

\* tf.math.top_k(scores, k): raises when a row has fewer than k columns
TopK(scores, k) ==
    IF \E i \in 1..Len(scores) : Len(scores[i]) < k
    THEN [raised |-> ErrTopK, values |-> <<>>, indices |-> <<>>]
    ELSE LET sel == [i \in 1..Len(scores) |->
                        TopKRow(scores[i], k, 1..Len(scores[i]))]
         IN [raised |-> NoError,
             values |-> [i \in 1..Len(scores) |->
                            [p \in 1..k |-> sel[i][p][1]]],
             indices |-> [i \in 1..Len(scores) |->
                            [p \in 1..k |-> sel[i][p][2]]]]

\* tf.gather(params, indices) for a matrix of 0-based indices
Gather(params, indices) ==
    [i \in 1..Len(indices) |->
        [p \in 1..Len(indices[i]) |-> params[indices[i][p] + 1]]]

\* bool(tensor) in eager execution: the truth value of the single element,
\* an error for a tensor of more than one element
TensorBool(t) ==
    IF Len(t) = 1 THEN [raised |-> NoError, val |-> t[1] # 0]
    ELSE [raised |-> ErrTruth, val |-> FALSE]

(***************************************************************************)
(* BruteForceTopK (blocks/retrieval/top_k.py).  A block is the record of   *)
(* its attributes _k, _candidates and _identifiers.                        *)
(***************************************************************************)
\* __init__: _candidates = None; _identifiers is not set yet
BruteForceTopK_init(k) == [k |-> k, candidates |-> None, identifiers |-> None]

\* a candidates_embeddings argument: a tensor of rank 2 (rows) or rank 1
EmbInputs ==
    {[rank |-> 2, data |-> CandBatch(n, s)] : n \in 1..MaxN, s \in {0, 1}}
        \cup {[rank |-> 1, data |-> CandVecs[s]] : s \in {1, 2}}

\* a dataset of item embeddings of n rows, as handed to load_from_dataset
Datasets == {[rank |-> 2, data |-> CandBatch(n, 0)] : n \in 1..MaxN}

\* the number of rows of a candidates_embeddings argument (shape[0])
Rows(E) == Len(E.data)

\* a candidates_ids argument for E: omitted, or a tensor of one id per row
IdInputs(E) ==
    {None} \cup {Some([j \in 1..Rows(E) |-> a + j - 1]) : a \in IdBases}

\* `not candidates_ids`: None is falsy; a tensor goes through bool(tensor)
NotIds(ids) ==
    IF ids.isNone THEN [raised |-> NoError, val |-> TRUE]
    ELSE LET b == TensorBool(ids.v)
         IN [raised |-> b.raised, val |-> ~b.val]

\* load_index(candidates_embeddings, candidates_ids): the error raised, if
\* any, and the block afterwards
load_index(block, E, ids) ==
    IF E.rank # 2 THEN [raised |-> ErrNot2D, block |-> block]
    ELSE LET n == NotIds(ids)
         IN IF n.raised # NoError THEN [raised |-> n.raised, block |-> block]
            ELSE LET candidates_ids == IF n.val THEN Range(Rows(E)) ELSE ids.v
                 IN [raised |-> NoError,
                     block |-> [block EXCEPT
                                   !.identifiers = Some(candidates_ids),
                                   !.candidates = Some(E.data)]]

\* load_from_dataset(candidates): raises NotImplementedError
load_from_dataset(block, candidates) ==
    [raised |-> ErrNotImplemented, block |-> block]

\* _compute_score(queries, candidates)
compute_score(queries, candidates) == MatMulT(queries, candidates)

\* call without the check of _candidates (faulty variant)
call_unchecked(block, inputs, karg) ==
    LET k == IF ~karg.isNone THEN karg.v ELSE block.k
        scores == compute_score(inputs, block.candidates.v)
        t == TopK(scores, k)
    IN IF t.raised # NoError
       THEN [raised |-> t.raised, top_scores |-> <<>>, top_indices |-> <<>>]
       ELSE [raised |-> NoError, top_scores |-> t.values,
             top_indices |-> Gather(block.identifiers.v, t.indices)]

\* call returning top_k's positions without the gather (faulty variant)
call_positions(block, inputs, karg) ==
    LET k == IF ~karg.isNone THEN karg.v ELSE block.k
    IN IF block.candidates.isNone
       THEN [raised |-> ErrNotLoaded, top_scores |-> <<>>, top_indices |-> <<>>]
       ELSE LET scores == compute_score(inputs, block.candidates.v)
                t == TopK(scores, k)
            IN IF t.raised # NoError
               THEN [raised |-> t.raised, top_scores |-> <<>>,
                     top_indices |-> <<>>]
               ELSE [raised |-> NoError, top_scores |-> t.values,
                     top_indices |-> t.indices]

\* call(inputs, k): the error raised, if any, and (top_scores, top_indices)
call(block, inputs, karg) ==
    LET k == IF ~karg.isNone THEN karg.v ELSE block.k
    IN IF block.candidates.isNone
       THEN [raised |-> ErrNotLoaded, top_scores |-> <<>>, top_indices |-> <<>>]
       ELSE LET scores == compute_score(inputs, block.candidates.v)
                t == TopK(scores, k)
            IN IF t.raised # NoError
               THEN [raised |-> t.raised, top_scores |-> <<>>,
                     top_indices |-> <<>>]
               ELSE [raised |-> NoError, top_scores |-> t.values,
                     top_indices |-> Gather(block.identifiers.v, t.indices)]

\* call_targets keeping every incoming column, not predictions[:, 0] (faulty variant)
call_targets_allcols(block, outputs, queries) ==
    LET r == call(block, queries, NoneInt)
    IN IF r.raised # NoError
       THEN [raised |-> r.raised, predictions |-> <<>>, targets |-> <<>>]
       ELSE LET predictions ==
                    [i \in 1..Len(outputs) |-> outputs[i] \o r.top_scores[i]]
                targets ==
                    [i \in 1..Len(predictions) |->
                        <<1>> \o [p \in 1..block.k |-> 0]]
            IN [raised |-> NoError, predictions |-> predictions,
                targets |-> targets]

\* call_targets(outputs): queries are read from the context; the error
\* raised, if any, and PredictionOutput(predictions, targets)
call_targets(block, outputs, queries) ==
    LET r == call(block, queries, NoneInt)
    IN IF r.raised # NoError
       THEN [raised |-> r.raised, predictions |-> <<>>, targets |-> <<>>]
       ELSE LET predictions ==
                    [i \in 1..Len(outputs) |->
                        <<outputs[i][1]>> \o r.top_scores[i]]
                targets ==
                    [i \in 1..Len(predictions) |->
                        <<1>> \o [p \in 1..block.k |-> 0]]
            IN [raised |-> NoError, predictions |-> predictions,
                targets |-> targets]

\* TopKRecommender.__init__(retrieval_model, data, dim, k): the error
\* raised, if any, and the model built
TopKRecommender_init(item_embeddings, k) ==
    LET top_k == BruteForceTopK_init(k)
        l == load_from_dataset(top_k, item_embeddings)
    IN IF l.raised # NoError
       THEN [raised |-> l.raised, model |-> [built |-> FALSE, k |-> 0,
                                             top_k |-> top_k]]
       ELSE [raised |-> NoError, model |-> [built |-> TRUE, k |-> k,
                                            top_k |-> l.block]]

\* what the last operation on the block was given and what it gave back
NoCall ==
    [op |-> "none", raised |-> NoError, rank |-> 0, rows |-> 0, ids |-> None, inputs |-> <<>>, k |-> NoneInt, outputs |-> <<>>,
     scores |-> <<>>, indices |-> <<>>, targets |-> <<>>]

\* history: whether a load_index has completed, and the arguments of the
\* latest one that did
NotLoaded == [done |-> FALSE, emb |-> <<>>, ids |-> None]

NoModel == [built |-> FALSE, k |-> 0, top_k |-> BruteForceTopK_init(0)]

\* batches of query embeddings
QueryInputs == {QueryBatch(b, s) : b \in 1..MaxB, s \in {0, 1}}
\* batches of incoming predictions of b rows
PredInputs(b) == {PredBatch(b, s) : s \in PredScales}

TopKInit ==
    /\ \E k \in 1..MaxK : topk = BruteForceTopK_init(k)
    /\ last = NoCall
    /\ loaded = NotLoaded
    /\ recommender = NoModel

LoadIndex ==
    \E E \in EmbInputs : \E ids \in IdInputs(E) :
        \E r \in {load_index(topk, E, ids)} :
           /\ topk' = r.block
           /\ loaded' = IF r.raised = NoError
                        THEN [done |-> TRUE, emb |-> E.data, ids |-> ids]
                        ELSE loaded
           /\ last' = [NoCall EXCEPT !.op = "load_index", !.raised = r.raised,
                                     !.rank = E.rank, !.rows = Rows(E),
                                     !.ids = ids]
           /\ UNCHANGED <<recommender, cdpVars, iptkVars, taskVars, dotVars, ibnsVars, aggVars>>

LoadFromDataset ==
    \E E \in Datasets :
        \E r \in {load_from_dataset(topk, E)} :
           /\ topk' = r.block
           /\ UNCHANGED loaded
           /\ last' = [NoCall EXCEPT !.op = "load_from_dataset",
                                     !.raised = r.raised]
           /\ UNCHANGED <<recommender, cdpVars, iptkVars, taskVars, dotVars, ibnsVars, aggVars>>

Call ==
    \E inputs \in QueryInputs :
    \E karg \in {NoneInt} \cup {SomeInt(n) : n \in 1..MaxK} :
        \E r \in {call(topk, inputs, karg)} :
           /\ last' = [NoCall EXCEPT !.op = "call", !.raised = r.raised,
                                     !.inputs = inputs, !.k = karg,
                                     !.scores = r.top_scores,
                                     !.indices = r.top_indices]
           /\ UNCHANGED <<topk, loaded, recommender, cdpVars, iptkVars, taskVars, dotVars, ibnsVars, aggVars>>

CallTargets ==
    \E queries \in QueryInputs : \E outputs \in PredInputs(Len(queries)) :
        \E r \in {call_targets(topk, outputs, queries)} :
           /\ last' = [NoCall EXCEPT !.op = "call_targets",
                                     !.raised = r.raised,
                                     !.inputs = queries, !.outputs = outputs,
                                     !.scores = r.predictions,
                                     !.targets = r.targets]
           /\ UNCHANGED <<topk, loaded, recommender, cdpVars, iptkVars, taskVars, dotVars, ibnsVars, aggVars>>

NewTopKRecommender ==
    \E E \in Datasets : \E k \in 1..MaxK :
        \E r \in {TopKRecommender_init(E, k)} :
           /\ recommender' = r.model
           /\ last' = [NoCall EXCEPT !.op = "TopKRecommender", !.raised = r.raised,
                                     !.k = SomeInt(k)]
           /\ UNCHANGED <<topk, loaded, cdpVars, iptkVars, taskVars, dotVars, ibnsVars, aggVars>>

TopKNext ==
    \/ LoadIndex
    \/ LoadFromDataset
    \/ Call
    \/ CallTargets
    \/ NewTopKRecommender

(***************************************************************************)
(* Properties of BruteForceTopK and TopKRecommender.                       *)
(***************************************************************************)
\* f picks k distinct candidates of E whose scores against q are vals, in
\* non-increasing order, and no candidate left out scores higher
Selects(f, vals, q, E, k) ==
    /\ \A p, r \in 1..k : f[p] = f[r] => p = r
    /\ \A p \in 1..k : vals[p] = Dot(q, E[f[p]])
    /\ \A p \in 1..(k - 1) : vals[p] >= vals[p + 1]
    /\ \A j \in 1..Len(E) :
           (\A p \in 1..k : f[p] # j) => Dot(q, E[j]) <= vals[k]

\* the identifiers the latest completed load_index was given: its
\* candidates_ids, or 0, 1, ..., N-1 when they were omitted
GivenIds ==
    IF loaded.ids.isNone THEN Range(Len(loaded.emb)) ELSE loaded.ids.v

\* C1: a call raises ValueError('load_index should be called before')
\* exactly when no load_index has completed before it, and a call that
\* raises leaves the block's index state as it was.
C1_CallNeedsLoadedIndex ==
    [][last'.op = "call" =>
          /\ (last'.raised = ErrNotLoaded) <=> ~loaded.done
          /\ (last'.raised # NoError) => (topk' = topk)]_vars

\* C1 witness: a call on a block with no completed load_index has raised
C1_Witness ==
    /\ last.op = "call"
    /\ last.raised = ErrNotLoaded
    /\ ~loaded.done
    /\ topk.candidates.isNone

\* C2: after load_index(E, ids), a call that returns gives every query row
\* exactly k scores, the k largest dot products with the loaded candidates
\* in non-increasing order, each with the id given for the candidate that
\* scored it; k is the argument when passed, else the constructor's k.
C2_CallReturnsTopK ==
    (last.op = "call" /\ last.raised = NoError) =>
        LET k == IF last.k.isNone THEN topk.k ELSE last.k.v
            N == Len(loaded.emb)
        IN /\ loaded.done
           /\ Len(last.scores) = Len(last.inputs)
           /\ Len(last.indices) = Len(last.inputs)
           /\ \A i \in 1..Len(last.inputs) :
                  /\ Len(last.scores[i]) = k
                  /\ Len(last.indices[i]) = k
                  /\ \E f \in [1..k -> 1..N] :
                         /\ Selects(f, last.scores[i], last.inputs[i],
                                    loaded.emb, k)
                         /\ \A p \in 1..k :
                                last.indices[i][p] = GivenIds[f[p]]

\* C2 witness: a call with an explicit k other than the constructor's has
\* returned two or more scores per row from an index of more candidates
C2_Witness ==
    /\ last.op = "call"
    /\ last.raised = NoError
    /\ ~last.k.isNone
    /\ last.k.v # topk.k
    /\ last.k.v >= 2
    /\ Len(loaded.emb) > last.k.v
    /\ Len(last.inputs) >= 2

\* C3: load_index on a 2D tensor of N rows succeeds and stores the given
\* candidates_ids element by element, or 0..N-1 when they are omitted.
C3_LoadIndexStoresIds ==
    (last.op = "load_index" /\ last.rank = 2) =>
        /\ last.raised = NoError
        /\ topk.identifiers =
               Some(IF last.ids.isNone THEN Range(last.rows) ELSE last.ids.v)

\* C4: call_targets that returns gives predictions of shape (B, 1+k) whose
\* first column is the first column of the incoming predictions and whose
\* other k columns are the top-k scores of the context queries against the
\* loaded candidates, and targets of shape (B, 1+k) that are 1 in the first
\* column and 0 elsewhere, for the constructor's k.
C4_CallTargetsShape ==
    (last.op = "call_targets" /\ last.raised = NoError) =>
        LET k == topk.k
            B == Len(last.outputs)
            N == Len(loaded.emb)
        IN /\ loaded.done
           /\ Len(last.scores) = B
           /\ Len(last.targets) = B
           /\ \A i \in 1..B :
                  /\ Len(last.scores[i]) = 1 + k
                  /\ last.scores[i][1] = last.outputs[i][1]
                  /\ \E f \in [1..k -> 1..N] :
                         Selects(f, Tail(last.scores[i]), last.inputs[i],
                                 loaded.emb, k)
                  /\ Len(last.targets[i]) = 1 + k
                  /\ last.targets[i][1] = 1
                  /\ \A p \in 2..(1 + k) : last.targets[i][p] = 0

\* C4 witness: call_targets has returned for a batch of two rows with two
\* or more top-k columns
C4_Witness ==
    /\ last.op = "call_targets"
    /\ last.raised = NoError
    /\ Len(last.outputs) >= 2
    /\ topk.k >= 2
    /\ Len(last.scores[1]) = 1 + topk.k

\* C5: load_from_dataset leaves the block with a loaded index, and
\* constructing a TopKRecommender completes with a top-k block whose index
\* is loaded.
C5_LoadFromDatasetLoads ==
    /\ last.op = "load_from_dataset" =>
           (last.raised = NoError /\ ~topk.candidates.isNone)
    /\ last.op = "TopKRecommender" =>
           /\ last.raised = NoError
           /\ recommender.built
           /\ ~recommender.top_k.candidates.isNone

(***************************************************************************)
(* DotProduct and ContrastiveDotProduct (predictions/dot_product.py).      *)
(* A layer is the record of its attributes; inputs and features are        *)
(* dictionaries from names to tensors.                                     *)
(***************************************************************************)
\* merlin.models.utils.constants.MIN_FLOAT, the default false_negative_score
\* (a float32 far below every score of the model)
MIN_FLOAT == -1000

\* largest number of negative samplers of a layer
MaxSamplers == 2

\* the item catalog: the embedding of the item with id j
ItemEmb == <<(<<1, 0>>), (<<0, 2>>), (<<1, 1>>)>>
EmbOf(ids) == [i \in 1..Len(ids) |-> ItemEmb[ids[i]]]
\* the item ids of a batch of b rows
ItemIdBatch(b, s) == [i \in 1..b |-> ((i + s) % 3) + 1]

\* Items(id, {}).with_embedding(embedding)
Items(id, embedding) == [id |-> id, embedding |-> embedding]
NoItems == Items(<<>>, <<>>)

\* Items.__add__: the items of a followed by the items of b
ItemsAdd(a, b) == Items(a.id \o b.id, a.embedding \o b.embedding)

RECURSIVE ItemsSum(_)
\* sum(negative_items) for a non-empty list
ItemsSum(l) == IF Len(l) = 1 THEN l[1] ELSE ItemsAdd(l[1], ItemsSum(Tail(l)))

\* the kinds of negative sampler: "in-batch" returns the items of the
\* batch, "popularity" two items of the catalog, "empty" no item (a
\* sampler whose cache holds nothing yet)
SamplerKinds == {"in-batch", "popularity", "empty"}
PopularIds == <<2, 3>>

\* call_layer(sampler, positive_items, ...): the items one sampler returns
Sample(kind, positive_items) ==
    CASE kind = "in-batch" -> positive_items
      [] kind = "popularity" -> Items(PopularIds, EmbOf(PopularIds))
      [] OTHER -> NoItems

ErrNoSamplersAttr ==
    "AttributeError: 'ContrastiveDotProduct' object has no attribute 'samplers'"
ErrNoNegatives == "Exception: No negative items where sampled from samplers"

\* DotProduct.__init__ and ContrastiveDotProduct.__init__ and build: the
\* names come from the arguments and the schema
ContrastiveDotProduct_init(negative_samplers, downscore_false_negatives) ==
    [query_name |-> "query", item_name |-> "item",
     item_id_name |-> "item_id", query_id_name |-> "user_id",
     negative_samplers |-> negative_samplers,
     downscore_false_negatives |-> downscore_false_negatives,
     false_negative_score |-> MIN_FLOAT]

\* DotProduct.call reading the default names whatever the layer is
\* configured with (faulty variant)
DotProduct_call_defaultnames(layer, inputs) ==
    [i \in 1..Len(inputs["query"]) |->
        <<Dot(inputs["query"][i], inputs["item"][i])>>]

\* DotProduct.call: the row-wise dot product, one column (keepdims)
DotProduct_call(layer, inputs) ==
    [i \in 1..Len(inputs[layer.query_name]) |->
        <<Dot(inputs[layer.query_name][i], inputs[layer.item_name][i])>>]

\* f"{key}_id"
IdKey(key) == IF key = "query" THEN "query_id" ELSE "item_id"

\* get_id_and_embedding(key, feature_name, inputs, features)
get_id_and_embedding(key, feature_name, inputs, features) ==
    [ids |-> IF IdKey(key) \in DOMAIN inputs THEN inputs[IdKey(key)]
             ELSE features[feature_name],
     embedding |-> inputs[key]]

\* sample_negatives(positive_items, features): the error raised, if any,
\* and the negatives
sample_negatives(layer, positive_items) ==
    LET sampled == [n \in 1..Len(layer.negative_samplers) |->
                       Sample(layer.negative_samplers[n], positive_items)]
        HasItems(x) == Len(x.id) > 0
        negative_items == SelectSeq(sampled, HasItems)
    IN IF Len(negative_items) = 0
       THEN [raised |-> ErrNoSamplersAttr, items |-> NoItems]
       ELSE [raised |-> NoError,
             items |-> IF Len(negative_items) > 1 THEN ItemsSum(negative_items)
                       ELSE negative_items[1]]

\* tf_utils.rescore_false_negatives(positive_item_ids, neg_samples_item_ids,
\* negative_scores, false_negatives_score): the score of negative j in row i
\* becomes false_negatives_score when its id is the positive id of row i
rescore_false_negatives(pos_ids, neg_ids, negative_scores, score) ==
    [i \in 1..Len(negative_scores) |->
        [j \in 1..Len(negative_scores[i]) |->
            IF pos_ids[i] = neg_ids[j] THEN score ELSE negative_scores[i][j]]]

\* tf.concat([a, b], axis=-1) of two matrices of as many rows
ConcatCols(a, b) == [i \in 1..Len(a) |-> a[i] \o b[i]]

\* tf.ones([rows, 1]) beside tf.zeros([rows, cols - 1])
OneHotFirst(rows, cols) ==
    [i \in 1..rows |-> <<1>> \o [p \in 1..(cols - 1) |-> 0]]

\* ContrastiveDotProduct.call with negatives ahead of the positive (faulty variant)
ContrastiveDotProduct_call_negfirst(layer, inputs, features) ==
    LET query == get_id_and_embedding(layer.query_name, layer.query_id_name,
                                      inputs, features)
        pos == get_id_and_embedding(layer.item_name, layer.item_id_name,
                                    inputs, features)
        neg == sample_negatives(layer, Items(pos.ids, pos.embedding))
    IN IF neg.raised # NoError
       THEN [raised |-> neg.raised, outputs |-> <<>>, targets |-> <<>>]
       ELSE LET positive_scores == DotProduct_call(layer, inputs)
                negative_scores == MatMulT(query.embedding, neg.items.embedding)
                rescored ==
                    IF layer.downscore_false_negatives
                    THEN rescore_false_negatives(pos.ids, neg.items.id,
                             negative_scores, layer.false_negative_score)
                    ELSE negative_scores
                outputs == ConcatCols(rescored, positive_scores)
            IN [raised |-> NoError, outputs |-> outputs,
                targets |-> OneHotFirst(Len(outputs), Len(outputs[1]))]

\* ContrastiveDotProduct.call rescoring whatever the flag says (faulty variant)
ContrastiveDotProduct_call_always(layer, inputs, features) ==
    LET query == get_id_and_embedding(layer.query_name, layer.query_id_name,
                                      inputs, features)
        pos == get_id_and_embedding(layer.item_name, layer.item_id_name,
                                    inputs, features)
        neg == sample_negatives(layer, Items(pos.ids, pos.embedding))
    IN IF neg.raised # NoError
       THEN [raised |-> neg.raised, outputs |-> <<>>, targets |-> <<>>]
       ELSE LET positive_scores == DotProduct_call(layer, inputs)
                negative_scores == MatMulT(query.embedding, neg.items.embedding)
                rescored ==
                    rescore_false_negatives(pos.ids, neg.items.id,
                        negative_scores, layer.false_negative_score)
                outputs == ConcatCols(positive_scores, rescored)
            IN [raised |-> NoError, outputs |-> outputs,
                targets |-> OneHotFirst(Len(outputs), Len(outputs[1]))]

\* ContrastiveDotProduct.call(inputs, features): the error raised, if any,
\* and Prediction(outputs, targets).  The cast to float32 keeps every score
\* of the model as it is; targets and outputs are both 2D, so the squeeze
\* of line 206 is never taken.
ContrastiveDotProduct_call(layer, inputs, features) ==
    LET query == get_id_and_embedding(layer.query_name, layer.query_id_name,
                                      inputs, features)
        pos == get_id_and_embedding(layer.item_name, layer.item_id_name,
                                    inputs, features)
        neg == sample_negatives(layer, Items(pos.ids, pos.embedding))
    IN IF neg.raised # NoError
       THEN [raised |-> neg.raised, outputs |-> <<>>, targets |-> <<>>]
       ELSE LET positive_scores == DotProduct_call(layer, inputs)
                negative_scores == MatMulT(query.embedding, neg.items.embedding)
                rescored ==
                    IF layer.downscore_false_negatives
                    THEN rescore_false_negatives(pos.ids, neg.items.id,
                             negative_scores, layer.false_negative_score)
                    ELSE negative_scores
                outputs == ConcatCols(positive_scores, rescored)
            IN [raised |-> NoError, outputs |-> outputs,
                targets |-> OneHotFirst(Len(outputs), Len(outputs[1]))]

\* lists of at most n sampler kinds, the empty list among them
SamplerLists(n) == {<<>>} \cup SeqUpTo(SamplerKinds, n)

\* the inputs of a batch of b rows: the query and item embeddings, with or
\* without the item ids under "item_id"
ContrastiveInputs(b, s, withId) ==
    IF withId
    THEN [query |-> QueryBatch(b, s), item |-> EmbOf(ItemIdBatch(b, s)),
          item_id |-> ItemIdBatch(b, s)]
    ELSE [query |-> QueryBatch(b, s), item |-> EmbOf(ItemIdBatch(b, s))]

\* the features of the batch: the id columns of the schema.  When the
\* inputs hold "item_id", the column holds other ids than they do.
ContrastiveFeatures(b, s, withId) ==
    [item_id |-> IF withId THEN ItemIdBatch(b, s + 1) ELSE ItemIdBatch(b, s),
     user_id |-> [i \in 1..b |-> i]]

NoCdpCall ==
    [op |-> "none", raised |-> NoError, inputs |-> [query |-> <<>>, item |-> <<>>],
     features |-> [item_id |-> <<>>, user_id |-> <<>>],
     outputs |-> <<>>, targets |-> <<>>]

CdpInit ==
    /\ \E l \in SamplerLists(MaxSamplers) : \E d \in BOOLEAN :
           cdp = ContrastiveDotProduct_init(l, d)
    /\ clast = NoCdpCall

CdpCall ==
    \E b \in 1..MaxB : \E s \in {0, 1} : \E withId \in BOOLEAN :
        \E r \in {ContrastiveDotProduct_call(cdp, ContrastiveInputs(b, s, withId),
                                             ContrastiveFeatures(b, s, withId))} :
           /\ clast' = [NoCdpCall EXCEPT
                           !.op = "call", !.raised = r.raised,
                           !.inputs = ContrastiveInputs(b, s, withId),
                           !.features = ContrastiveFeatures(b, s, withId),
                           !.outputs = r.outputs, !.targets = r.targets]
           /\ UNCHANGED <<cdp, topkVars, iptkVars, taskVars, dotVars, ibnsVars, aggVars>>

\* DotProductCategoricalPrediction.compile and the downscore_false_negatives
\* setter
CdpSetDownscore ==
    \E value \in BOOLEAN :
        /\ cdp' = [cdp EXCEPT !.downscore_false_negatives = value]
        /\ clast' = [NoCdpCall EXCEPT !.op = "downscore_false_negatives"]
        /\ UNCHANGED <<topkVars, iptkVars, taskVars, dotVars, ibnsVars, aggVars>>

\* DotProductCategoricalPrediction.add_sampler
CdpAddSampler ==
    \E kind \in SamplerKinds :
        /\ Len(cdp.negative_samplers) < MaxSamplers
        /\ cdp' = [cdp EXCEPT
                      !.negative_samplers = Append(cdp.negative_samplers, kind)]
        /\ clast' = [NoCdpCall EXCEPT !.op = "add_sampler"]
        /\ UNCHANGED <<topkVars, iptkVars, taskVars, dotVars, ibnsVars, aggVars>>

CdpNext ==
    \/ CdpCall
    \/ CdpSetDownscore
    \/ CdpAddSampler

(***************************************************************************)
(* Properties of ContrastiveDotProduct.                                    *)
(***************************************************************************)
RECURSIVE Flatten(_)
Flatten(ss) == IF ss = <<>> THEN <<>> ELSE Head(ss) \o Flatten(Tail(ss))

\* the positive item ids and embeddings of the last call's batch
PosIds ==
    IF "item_id" \in DOMAIN clast.inputs THEN clast.inputs.item_id
    ELSE clast.features.item_id
PosItems == Items(PosIds, clast.inputs.item)

\* the ids and embeddings of the negatives the samplers returned for it
NegIds ==
    Flatten([n \in 1..Len(cdp.negative_samplers) |->
                Sample(cdp.negative_samplers[n], PosItems).id])
NegEmbs ==
    Flatten([n \in 1..Len(cdp.negative_samplers) |->
                Sample(cdp.negative_samplers[n], PosItems).embedding])

Returned == clast.op = "call" /\ clast.raised = NoError

\* outputs and targets have shape (B, 1+N), column 0 of outputs is the
\* positive score, targets are 1 in column 0 and 0 elsewhere
ContrastiveLayout ==
    LET B == Len(clast.inputs.query)
        N == Len(NegIds)
    IN /\ Len(clast.outputs) = B
       /\ Len(clast.targets) = B
       /\ \A i \in 1..B :
              /\ Len(clast.outputs[i]) = 1 + N
              /\ Len(clast.targets[i]) = 1 + N
              /\ clast.outputs[i][1] =
                     Dot(clast.inputs.query[i], clast.inputs.item[i])
              /\ clast.targets[i][1] = 1
              /\ \A j \in 1..N : clast.targets[i][j + 1] = 0

\* negative j is a false negative of row i that the layer downscores
Downscored(i, j) ==
    cdp.downscore_false_negatives /\ NegIds[j] = PosIds[i]

\* C6, as stated: outputs have shape (B, 1+N) with the positive score in
\* column 0 and the score of the query against negative j in column j,
\* and targets of the same shape are 1 in column 0 and 0 elsewhere.
C6_ContrastiveOutputs ==
    Returned =>
        /\ ContrastiveLayout
        /\ \A i \in 1..Len(clast.outputs) : \A j \in 1..Len(NegIds) :
               clast.outputs[i][j + 1] = Dot(clast.inputs.query[i], NegEmbs[j])

\* C6, amended: as above, but column j holds the score of the query
\* against negative j only where negative j is not a downscored false
\* negative of the row.
C6_ContrastiveOutputsAmended ==
    Returned =>
        /\ ContrastiveLayout
        /\ \A i \in 1..Len(clast.outputs) : \A j \in 1..Len(NegIds) :
               ~Downscored(i, j) =>
                   clast.outputs[i][j + 1] =
                       Dot(clast.inputs.query[i], NegEmbs[j])

\* C6 witness: a call has returned for two rows and the negatives of two
\* samplers, one of them a downscored false negative
C6_Witness ==
    /\ Returned
    /\ Len(clast.outputs) >= 2
    /\ Len(cdp.negative_samplers) = 2
    /\ Len(NegIds) >= 3
    /\ Len(clast.outputs[1]) = 1 + Len(NegIds)
    /\ \E i \in 1..Len(clast.outputs) : \E j \in 1..Len(NegIds) :
           Downscored(i, j)

\* C7: with downscore_false_negatives enabled the score of negative j in
\* row i is false_negative_score exactly when the id of negative j is the
\* positive item id of row i; every other negative score and every
\* positive score is the dot product; with it disabled every score is.
C7_FalseNegativesRescored ==
    Returned =>
        \A i \in 1..Len(clast.outputs) :
            /\ clast.outputs[i][1] =
                   Dot(clast.inputs.query[i], clast.inputs.item[i])
            /\ \A j \in 1..Len(NegIds) :
                   /\ clast.outputs[i][j + 1] =
                          IF cdp.downscore_false_negatives
                              /\ NegIds[j] = PosIds[i]
                          THEN cdp.false_negative_score
                          ELSE Dot(clast.inputs.query[i], NegEmbs[j])
                   /\ (clast.outputs[i][j + 1] = cdp.false_negative_score)
                          <=> (cdp.downscore_false_negatives
                                  /\ NegIds[j] = PosIds[i])

\* C7 witness: a call with downscoring enabled has returned a row with a
\* rescored false negative beside a negative left as it was
C7_Witness ==
    /\ Returned
    /\ cdp.downscore_false_negatives
    /\ \E i \in 1..Len(clast.outputs) : \E j, m \in 1..Len(NegIds) :
           /\ NegIds[j] = PosIds[i]
           /\ clast.outputs[i][j + 1] = cdp.false_negative_score
           /\ NegIds[m] # PosIds[i]
           /\ clast.outputs[i][m + 1] # cdp.false_negative_score

\* C8: when every sampler returns zero items, or there is no sampler, the
\* call raises the exception 'No negative items where sampled from
\* samplers ...'.
C8_NoNegativesException ==
    (clast.op = "call" /\ Len(NegIds) = 0) =>
        clast.raised = ErrNoNegatives

(***************************************************************************)
(* ItemsPredictionTopK (blocks/retrieval/top_k.py).                        *)
(***************************************************************************)
\* rows of item-prediction scores over three items, and rows of labels
ScoreRows == <<(<<3, 1, 2>>), (<<0, 5, 5>>), (<<2, 2, 4>>)>>
LabelRows == <<(<<1, 0, 0>>), (<<0, 1, 1>>), (<<0, 0, 0>>)>>
ScoreBatch(b, s) == [i \in 1..b |-> ScoreRows[((i + s) % 3) + 1]]
LabelBatch(b, t) == [i \in 1..b |-> LabelRows[((i + t) % 3) + 1]]
\* integer encoded targets of a batch: item ids 0, 1, 2
TargetBatch(b, t) == [i \in 1..b |-> (i + t) % 3]

\* ItemsPredictionTopK.__init__
ItemsPredictionTopK_init(k, transform_to_onehot) ==
    [k |-> k, transform_to_onehot |-> transform_to_onehot]

\* tf_utils.tranform_label_to_onehot(labels, vocab_size): row i is 1 at
\* position labels[i] (0-based) and 0 elsewhere
tranform_label_to_onehot(labels, vocab_size) ==
    [i \in 1..Len(labels) |->
        [c \in 1..vocab_size |-> IF labels[i] = c - 1 THEN 1 ELSE 0]]

\* tf_utils.extract_topk(k, scores, labels): the top-k scores of every
\* row, their positions, and the labels at those positions
extract_topk(k, scores, labels) ==
    LET t == TopK(scores, k)
    IN IF t.raised # NoError
       THEN [raised |-> t.raised, topk_scores |-> <<>>, topk_indices |-> <<>>,
             topk_labels |-> <<>>]
       ELSE [raised |-> NoError, topk_scores |-> t.values,
             topk_indices |-> t.indices,
             topk_labels |->
                 [i \in 1..Len(labels) |->
                     [p \in 1..k |-> labels[i][t.indices[i][p] + 1]]]]

\* call_targets returning PredictionOutput(topk_labels, topk_scores) (faulty variant)
ItemsPredictionTopK_call_targets_swapped(block, outputs) ==
    LET predictions == outputs.predictions
        targets == IF block.transform_to_onehot
                   THEN tranform_label_to_onehot(outputs.targets,
                                                 Len(predictions[1]))
                   ELSE outputs.targets
        e == extract_topk(block.k, predictions, targets)
    IN [raised |-> e.raised, predictions |-> e.topk_labels,
        targets |-> e.topk_scores]

\* ItemsPredictionTopK.call_targets(outputs): the error raised, if any, and
\* PredictionOutput(topk_scores, topk_labels)
ItemsPredictionTopK_call_targets(block, outputs) ==
    LET predictions == outputs.predictions
        targets == IF block.transform_to_onehot
                   THEN tranform_label_to_onehot(outputs.targets,
                                                 Len(predictions[1]))
                   ELSE outputs.targets
        e == extract_topk(block.k, predictions, targets)
    IN [raised |-> e.raised, predictions |-> e.topk_scores,
        targets |-> e.topk_labels]

\* the outputs handed to call_targets: integer targets for a block that
\* transforms them to one-hot, rows of labels for one that does not
IptkInputs(block) ==
    {[predictions |-> ScoreBatch(b, s),
      targets |-> IF block.transform_to_onehot THEN TargetBatch(b, t)
                  ELSE LabelBatch(b, t)] :
        b \in 1..MaxB, s \in 0..2, t \in 0..2}

NoIptkCall ==
    [op |-> "none", raised |-> NoError, predictions |-> <<>>, targets |-> <<>>,
     topk_scores |-> <<>>, topk_labels |-> <<>>]

IptkInit ==
    /\ \E k \in 1..MaxK : \E o \in BOOLEAN :
           iptk = ItemsPredictionTopK_init(k, o)
    /\ ilast = NoIptkCall

IptkCallTargets ==
    \E outputs \in IptkInputs(iptk) :
        \E r \in {ItemsPredictionTopK_call_targets(iptk, outputs)} :
           /\ ilast' = [NoIptkCall EXCEPT
                           !.op = "call_targets", !.raised = r.raised,
                           !.predictions = outputs.predictions,
                           !.targets = outputs.targets,
                           !.topk_scores = r.predictions,
                           !.topk_labels = r.targets]
           /\ UNCHANGED <<iptk, topkVars, cdpVars, taskVars, dotVars, ibnsVars, aggVars>>

IptkNext == IptkCallTargets

\* C9: call_targets that returns gives every row its k largest prediction
\* scores in non-increasing order and the labels at the item positions of
\* those scores; with transform_to_onehot the label at a position is 1
\* exactly when that position holds the row's target item, else 0.
C9_TopKScoresAndLabels ==
    (ilast.op = "call_targets" /\ ilast.raised = NoError) =>
        LET k == iptk.k
            B == Len(ilast.predictions)
        IN /\ Len(ilast.topk_scores) = B
           /\ Len(ilast.topk_labels) = B
           /\ \A i \in 1..B :
                  LET row == ilast.predictions[i]
                      C == Len(row)
                      scores == ilast.topk_scores[i]
                      labels == ilast.topk_labels[i]
                  IN /\ Len(scores) = k
                     /\ Len(labels) = k
                     /\ \A p \in 1..(k - 1) : scores[p] >= scores[p + 1]
                     /\ \E f \in [1..k -> 1..C] :
                            /\ \A p, r \in 1..k : f[p] = f[r] => p = r
                            /\ \A p \in 1..k : scores[p] = row[f[p]]
                            /\ \A c \in 1..C :
                                   (\A p \in 1..k : f[p] # c)
                                       => row[c] <= scores[k]
                            /\ \A p \in 1..k :
                                   labels[p] =
                                       IF iptk.transform_to_onehot
                                       THEN (IF ilast.targets[i] = f[p] - 1
                                             THEN 1 ELSE 0)
                                       ELSE ilast.targets[i][f[p]]

\* C9 witness: a block that transforms targets to one-hot has returned two
\* scores per row, one row with its target item among them and one without
C9_Witness ==
    /\ ilast.op = "call_targets"
    /\ ilast.raised = NoError
    /\ iptk.transform_to_onehot
    /\ iptk.k = 2
    /\ \E i, m \in 1..Len(ilast.topk_labels) :
           /\ ilast.topk_labels[i] = <<0, 1>>
           /\ ilast.topk_labels[m] = <<0, 0>>

(***************************************************************************)
(* ItemRetrievalTask (prediction/item_prediction.py).  A block is the      *)
(* sequence of its stages, applied first to last.                          *)
(***************************************************************************)
\* the stages
L2Norm == [name |-> "L2Norm", temperature |-> 0]
InBatchNegativeSampling == [name |-> "InBatchNegativeSampling", temperature |-> 0]
SoftmaxTemperature(temperature) ==
    [name |-> "SoftmaxTemperature", temperature |-> temperature]
SamplingBiasCorrection == [name |-> "SamplingBiasCorrection", temperature |-> 0]
ExtraNegativeSampling == [name |-> "ExtraNegativeSampling", temperature |-> 0]

\* Block.connect: the stages of a followed by the stages of b
connect(a, b) == a \o b

\* the arguments of ItemRetrievalTask: extra_pre_call (None, a block of one
\* stage, or a block of two), softmax_temperature and normalize
ExtraPreCalls ==
    {None, Some(<<SamplingBiasCorrection>>), Some(<<ExtraNegativeSampling>>),
     Some(<<ExtraNegativeSampling, SamplingBiasCorrection>>)}
Temperatures == {1, 2, 3}

\* line 273: prediction_call = InBatchNegativeSampling()
RetrievalStart == <<InBatchNegativeSampling>>

\* the L2 normalization connected after the dot interaction (faulty variant)
RetrievalNormalizeAfter(prediction_call, normalize) ==
    IF normalize THEN connect(prediction_call, <<L2Norm>>) ELSE prediction_call

\* lines 275-276: if normalize: L2Norm().connect(prediction_call)
RetrievalNormalize(prediction_call, normalize) ==
    IF normalize THEN connect(<<L2Norm>>, prediction_call) ELSE prediction_call

\* lines 278-279: if softmax_temperature != 1: connect(SoftmaxTemperature)
RetrievalTemperature(prediction_call, softmax_temperature) ==
    IF softmax_temperature # 1
    THEN connect(prediction_call, <<SoftmaxTemperature(softmax_temperature)>>)
    ELSE prediction_call

\* lines 281-282: if extra_pre_call is not None: connect(extra_pre_call)
RetrievalExtra(prediction_call, extra_pre_call) ==
    IF ~extra_pre_call.isNone THEN connect(prediction_call, extra_pre_call.v)
    ELSE prediction_call

\* ItemRetrievalTask is called with its arguments; pc is the line reached
TaskInit ==
    \E e \in ExtraPreCalls : \E t \in Temperatures : \E n \in BOOLEAN :
        task = [pc |-> "start", extra_pre_call |-> e, softmax_temperature |-> t,
                normalize |-> n, prediction_call |-> <<>>, pre |-> <<>>]

TaskStart ==
    /\ task.pc = "start"
    /\ task' = [task EXCEPT !.pc = "normalize",
                            !.prediction_call = RetrievalStart]
    /\ UNCHANGED <<topkVars, cdpVars, iptkVars, dotVars, ibnsVars, aggVars>>

TaskNormalize ==
    /\ task.pc = "normalize"
    /\ task' = [task EXCEPT
                   !.pc = "temperature",
                   !.prediction_call =
                       RetrievalNormalize(task.prediction_call, task.normalize)]
    /\ UNCHANGED <<topkVars, cdpVars, iptkVars, dotVars, ibnsVars, aggVars>>

TaskTemperature ==
    /\ task.pc = "temperature"
    /\ task' = [task EXCEPT
                   !.pc = "extra",
                   !.prediction_call =
                       RetrievalTemperature(task.prediction_call,
                                            task.softmax_temperature)]
    /\ UNCHANGED <<topkVars, cdpVars, iptkVars, dotVars, ibnsVars, aggVars>>

TaskExtra ==
    /\ task.pc = "extra"
    /\ task' = [task EXCEPT
                   !.pc = "return",
                   !.prediction_call =
                       RetrievalExtra(task.prediction_call, task.extra_pre_call)]
    /\ UNCHANGED <<topkVars, cdpVars, iptkVars, dotVars, ibnsVars, aggVars>>

\* lines 284-291: MultiClassClassificationTask(..., pre=prediction_call)
TaskReturn ==
    /\ task.pc = "return"
    /\ task' = [task EXCEPT !.pc = "done", !.pre = task.prediction_call]
    /\ UNCHANGED <<topkVars, cdpVars, iptkVars, dotVars, ibnsVars, aggVars>>

TaskNext ==
    \/ TaskStart
    \/ TaskNormalize
    \/ TaskTemperature
    \/ TaskExtra
    \/ TaskReturn

\* the positions of the stages called name in the pre-call pipeline
Positions(name) == {p \in 1..Len(task.pre) : task.pre[p].name = name}

\* C10: in the pipeline ItemRetrievalTask returns, L2Norm is present only
\* when normalize is True and then comes before the in-batch dot
\* interaction; SoftmaxTemperature comes right after the dot interaction
\* and only when softmax_temperature != 1; extra_pre_call, when given, is
\* the last stage; with normalize False the pipeline starts with
\* InBatchNegativeSampling.
C10_PreCallOrder ==
    task.pc = "done" =>
        LET n == Len(task.pre)
            dot == IF task.normalize THEN 2 ELSE 1
            extra == IF task.extra_pre_call.isNone THEN <<>>
                     ELSE task.extra_pre_call.v
        IN /\ Positions("InBatchNegativeSampling") = {dot}
           /\ Positions("L2Norm") = IF task.normalize THEN {1} ELSE {}
           /\ Positions("SoftmaxTemperature") =
                  IF task.softmax_temperature # 1 THEN {dot + 1} ELSE {}
           /\ \A p \in Positions("SoftmaxTemperature") :
                  task.pre[p].temperature = task.softmax_temperature
           /\ n = dot + (IF task.softmax_temperature # 1 THEN 1 ELSE 0)
                      + Len(extra)
           /\ \A p \in 1..Len(extra) : task.pre[n - Len(extra) + p] = extra[p]

\* C10 witness: a task built with normalize, a temperature other than 1
\* and an extra_pre_call holds all four kinds of stage
C10_Witness ==
    /\ task.pc = "done"
    /\ task.normalize
    /\ task.softmax_temperature # 1
    /\ ~task.extra_pre_call.isNone
    /\ Len(task.pre) >= 4

(***************************************************************************)
(* DotProduct (predictions/dot_product.py).                                *)
(***************************************************************************)
\* the names a DotProduct layer may be configured with
QueryNames == {"query", "user"}
ItemNames == {"item", "candidate"}
\* embedding dimensions of the incoming tensors
DotDims == {1, 2}

\* the first d columns of a 2-D tensor, and a 2-D tensor times a scalar
Trunc(t, d) == [i \in DOMAIN t |-> SubSeq(t[i], 1, d)]
Scale(t, c) == [i \in DOMAIN t |-> [j \in DOMAIN t[i] |-> c * t[i][j]]]

\* the shape of a 2-D tensor
Shape(t) == <<Len(t), Len(t[1])>>

\* a dictionary in insertion order: a sequence of <<name, value>> pairs
DictKeys(d) == [i \in DOMAIN d |-> d[i][1]]
DictValues(d) == [i \in DOMAIN d |-> d[i][2]]
\* d[name]
DictGet(d, name) == d[CHOOSE i \in DOMAIN d : d[i][1] = name][2]

\* the inputs of a batch: one (b, d) tensor under each name, all different
DotInputs(b, s, t, d, c) ==
    [query |-> Trunc(QueryBatch(b, s), d),
     user |-> Scale(Trunc(QueryBatch(b, s + 1), d), 2),
     item |-> Scale(Trunc(CandBatch(b, t), d), c),
     candidate |-> Scale(Trunc(CandBatch(b, t + 1), d), c + 1)]

\* the orders in which a caller may have inserted the names
DotOrders ==
    {<<"query", "item", "user", "candidate">>,
     <<"candidate", "user", "item", "query">>}

\* the input_shape dictionary of a batch of b rows of dimension d
DotInputShapes(b, d, order) == [i \in DOMAIN order |-> <<order[i], <<b, d>>>>]

\* DotProduct.__init__
DotProduct_init(query_name, item_name) ==
    [query_name |-> query_name, item_name |-> item_name]

\* tf_utils.calculate_batch_size_from_input_shapes: the first dimension of
\* the first shape of the dictionary
calculate_batch_size_from_input_shapes(input_shape) ==
    DictValues(input_shape)[1][1]

\* DotProduct.compute_output_shape
DotProduct_compute_output_shape(layer, input_shape) ==
    <<calculate_batch_size_from_input_shapes(input_shape), 1>>

NoDotCall ==
    [op |-> "none",
     inputs |-> [query |-> <<>>, user |-> <<>>, item |-> <<>>, candidate |-> <<>>],
     outputs |-> <<>>, input_shape |-> <<>>, shape |-> <<>>]

\* a layer built with the default names
DotInit ==
    /\ dp = DotProduct_init("query", "item")
    /\ dlast = NoDotCall

\* a new layer replaces the former one
DotNew ==
    \E q \in QueryNames : \E it \in ItemNames :
        /\ dp' = DotProduct_init(q, it)
        /\ dlast' = NoDotCall
        /\ UNCHANGED <<topkVars, cdpVars, iptkVars, taskVars, ibnsVars, aggVars>>

DotCall ==
    \E b \in 1..MaxB : \E s \in {0, 1} : \E t \in {0, 1} : \E d \in DotDims :
        \E c \in PredScales :
            /\ dlast' = [NoDotCall EXCEPT
                            !.op = "call",
                            !.inputs = DotInputs(b, s, t, d, c),
                            !.outputs = DotProduct_call(dp, DotInputs(b, s, t, d, c))]
            /\ UNCHANGED <<dp, topkVars, cdpVars, iptkVars, taskVars, ibnsVars, aggVars>>

DotComputeOutputShape ==
    \E b \in 1..MaxB : \E d \in DotDims : \E order \in DotOrders :
        /\ dlast' = [NoDotCall EXCEPT
                        !.op = "compute_output_shape",
                        !.input_shape = DotInputShapes(b, d, order),
                        !.shape = DotProduct_compute_output_shape(
                                      dp, DotInputShapes(b, d, order))]
        /\ UNCHANGED <<dp, topkVars, cdpVars, iptkVars, taskVars, ibnsVars, aggVars>>

DotNext ==
    \/ DotNew
    \/ DotCall
    \/ DotComputeOutputShape

(***************************************************************************)
(* Properties of DotProduct.                                               *)
(***************************************************************************)
\* the input_shape dictionary of the inputs of a call, in a given order
ShapesOf(inputs, order) ==
    [i \in DOMAIN order |-> <<order[i], Shape(inputs[order[i]])>>]

\* C11: DotProduct.call returns for every row i the single value
\* sum over d of query[i][d] * item[i][d], an output of shape (batch, 1),
\* with query and item read from the inputs under the configured query_name
\* and item_name; compute_output_shape reports (batch_size, 1), the shape
\* of that output.
C11_DotProductRowwise ==
    /\ dlast.op = "call" =>
           LET query == dlast.inputs[dp.query_name]
               item == dlast.inputs[dp.item_name]
           IN /\ Len(dlast.outputs) = Len(query)
              /\ \A i \in 1..Len(query) :
                     /\ Len(dlast.outputs[i]) = 1
                     /\ dlast.outputs[i][1] =
                            SumSeq([d \in 1..Len(query[i]) |->
                                       query[i][d] * item[i][d]])
              /\ \A order \in DotOrders :
                     DotProduct_compute_output_shape(
                         dp, ShapesOf(dlast.inputs, order))
                         = Shape(dlast.outputs)
    /\ dlast.op = "compute_output_shape" =>
           /\ Len(dlast.shape) = 2
           /\ dlast.shape[2] = 1
           /\ \A i \in DOMAIN dlast.input_shape :
                  dlast.shape[1] = dlast.input_shape[i][2][1]

\* C11 witness: a layer configured with other names than the defaults
\* scored a batch of two rows of dimension 2, and the tensors under the
\* default names would have given other scores
C11_Witness ==
    /\ dlast.op = "call"
    /\ dp.query_name = "user"
    /\ dp.item_name = "candidate"
    /\ Len(dlast.outputs) = 2
    /\ Len(dlast.inputs["user"][1]) = 2
    /\ dlast.outputs[1] # dlast.outputs[2]
    /\ dlast.outputs # DotProduct_call(DotProduct_init("query", "item"), dlast.inputs)

(***************************************************************************)
(* InBatchNegativeSampling (merlin_models/tf/prediction/item_prediction.py)*)
(***************************************************************************)
ErrAssert == "AssertionError"
ErrDiag == "InvalidArgumentError: diagonal must be at least 1-dim"

\* the targets argument: None, or a tensor of the given rank whose values
\* are v; rank 1 is the shape (len(v),), rank 2 is (len(v), 1), rank 0 is
\* the scalar v[1]
NoTargets == [isNone |-> TRUE, rank |-> 0, v |-> <<>>]
Targets(rank, v) == [isNone |-> FALSE, rank |-> rank, v |-> v]

\* the first target value a caller may pass; the others follow it by one
TargetBases == {0, 1, 5}
\* the targets of a batch of b rows
TargetInputs(b) ==
    {NoTargets}
        \cup {Targets(rank, [i \in 1..b |-> a + i - 1]) :
                 rank \in {1, 2}, a \in TargetBases}

\* tf.squeeze of a tensor of shape (B, 1): every dimension of size 1 goes,
\* so a (1, 1) tensor becomes a scalar
Squeeze(t) ==
    IF t.rank = 2 /\ Len(t.v) = 1 THEN Targets(0, t.v)
    ELSE Targets(1, t.v)

\* tf.linalg.diag of a vector
Diag(v) == [i \in 1..Len(v) |-> [j \in 1..Len(v) |-> IF i = j THEN v[i] ELSE 0]]

\* tf.eye(num_rows, num_columns)
Eye(num_rows, num_columns) ==
    [i \in 1..num_rows |-> [j \in 1..num_columns |-> IF i = j THEN 1 ELSE 0]]

\* tf.keras.layers.Dot(axes=1) on two (B, D) tensors: shape (B, 1)
KerasDot(a, b) == [i \in 1..Len(a) |-> <<Dot(a[i], b[i])>>]

\* `if targets:` None is falsy; a tensor goes through bool(tensor)
TargetsTruth(targets) ==
    IF targets.isNone THEN [raised |-> NoError, val |-> FALSE]
    ELSE TensorBool(targets.v)

\* InBatchNegativeSampling.call(inputs, training); inputs is a dictionary
\* in insertion order
InBatchNegativeSampling_call(inputs, training) ==
    IF Len(inputs) # 2 THEN [raised |-> ErrAssert, outputs |-> <<>>]
    ELSE IF training
    THEN [raised |-> NoError,
          outputs |-> MatMulT(DictValues(inputs)[1], DictValues(inputs)[2])]
    ELSE [raised |-> NoError,
          outputs |-> KerasDot(DictValues(inputs)[1], DictValues(inputs)[2])]

\* InBatchNegativeSampling.call_targets(predictions, targets)
InBatchNegativeSampling_call_targets(predictions, targets) ==
    LET truth == TargetsTruth(targets)
        squeezed == IF targets.rank = 2 THEN Squeeze(targets) ELSE targets
    IN IF truth.raised # NoError
       THEN [raised |-> truth.raised, targets |-> <<>>]
       ELSE IF truth.val
       THEN IF squeezed.rank = 0
            THEN [raised |-> ErrDiag, targets |-> <<>>]
            ELSE [raised |-> NoError, targets |-> Diag(squeezed.v)]
       ELSE [raised |-> NoError,
             targets |-> Eye(Len(predictions), Len(predictions[1]))]

\* the inputs of a batch: the query and the item tower's outputs, in either
\* insertion order, or with a third entry
InBatchInputs(b, s, t) ==
    {<<(<<"query", QueryBatch(b, s)>>), (<<"item", CandBatch(b, t)>>)>>,
     <<(<<"item", CandBatch(b, t)>>), (<<"query", QueryBatch(b, s)>>)>>,
     <<(<<"query", QueryBatch(b, s)>>), (<<"item", CandBatch(b, t)>>),
       (<<"item_id", CandBatch(b, t)>>)>>}

\* the predictions call_targets is handed: what call returned for a batch
InBatchPredictions(b, s, t, training) ==
    InBatchNegativeSampling_call(
        <<(<<"query", QueryBatch(b, s)>>), (<<"item", CandBatch(b, t)>>)>>,
        training).outputs

NoIbnsCall ==
    [op |-> "none", raised |-> NoError, inputs |-> <<>>, training |-> TRUE,
     outputs |-> <<>>, predictions |-> <<>>, targets |-> NoTargets,
     result |-> <<>>]

IbnsInit == nlast = NoIbnsCall

IbnsCall ==
    \E b \in 1..MaxB : \E s \in {0, 1} : \E t \in {0, 1} :
        \E inputs \in InBatchInputs(b, s, t) : \E training \in BOOLEAN :
            \E r \in {InBatchNegativeSampling_call(inputs, training)} :
                /\ nlast' = [NoIbnsCall EXCEPT
                                !.op = "call", !.raised = r.raised,
                                !.inputs = inputs, !.training = training,
                                !.outputs = r.outputs]
                /\ UNCHANGED <<topkVars, cdpVars, iptkVars, taskVars, dotVars, aggVars>>

IbnsCallTargets ==
    \E b \in 1..MaxB : \E s \in {0, 1} : \E t \in {0, 1} :
        \E training \in BOOLEAN : \E targets \in TargetInputs(b) :
            \E p \in {InBatchPredictions(b, s, t, training)} :
                \E r \in {InBatchNegativeSampling_call_targets(p, targets)} :
                    /\ nlast' = [NoIbnsCall EXCEPT
                                    !.op = "call_targets", !.raised = r.raised,
                                    !.predictions = p, !.targets = targets,
                                    !.result = r.targets]
                    /\ UNCHANGED <<topkVars, cdpVars, iptkVars, taskVars, dotVars, aggVars>>

IbnsNext ==
    \/ IbnsCall
    \/ IbnsCallTargets

(***************************************************************************)
(* Properties of InBatchNegativeSampling.                                  *)
(***************************************************************************)
\* every dot product of a row of the first of two inputs with a row of the
\* second
AllPairs(inputs, outputs) ==
    /\ Len(outputs) = Len(inputs[1][2])
    /\ \A i \in 1..Len(outputs) :
           /\ Len(outputs[i]) = Len(inputs[2][2])
           /\ \A j \in 1..Len(outputs[i]) :
                  outputs[i][j] = SumSeq([d \in 1..Len(inputs[1][2][i]) |->
                                             inputs[1][2][i][d] * inputs[2][2][j][d]])

\* the row-wise dot product, one column
RowWise(inputs, outputs) ==
    LET query == DictGet(inputs, "query")
        item == DictGet(inputs, "item")
    IN /\ Len(outputs) = Len(query)
       /\ \A i \in 1..Len(outputs) :
              outputs[i] = <<SumSeq([d \in 1..Len(query[i]) |->
                                        query[i][d] * item[i][d]])>>

\* C12: in training, call returns the B x B matrix of the dot products of
\* every query row with every item row, and call_targets with no targets
\* returns the identity matrix of the predictions' shape; with a targets
\* vector t of length B, or of shape (B, 1), call_targets returns diag(t),
\* for every such t with B >= 1; when not training, call returns the
\* row-wise dot product only.
C12_InBatchNegatives ==
    /\ (nlast.op = "call" /\ Len(nlast.inputs) = 2) =>
           /\ nlast.raised = NoError
           /\ nlast.training => AllPairs(nlast.inputs, nlast.outputs)
           /\ ~nlast.training => RowWise(nlast.inputs, nlast.outputs)
    /\ (nlast.op = "call_targets" /\ nlast.targets.isNone) =>
           /\ nlast.raised = NoError
           /\ Len(nlast.result) = Len(nlast.predictions)
           /\ \A i \in 1..Len(nlast.result) :
                  /\ Len(nlast.result[i]) = Len(nlast.predictions[i])
                  /\ \A j \in 1..Len(nlast.result[i]) :
                         nlast.result[i][j] = (IF i = j THEN 1 ELSE 0)
    /\ (nlast.op = "call_targets" /\ ~nlast.targets.isNone) =>
           /\ nlast.raised = NoError
           /\ Len(nlast.result) = Len(nlast.targets.v)
           /\ \A i \in 1..Len(nlast.result) :
                  /\ Len(nlast.result[i]) = Len(nlast.targets.v)
                  /\ \A j \in 1..Len(nlast.result[i]) :
                         nlast.result[i][j] =
                             (IF i = j THEN nlast.targets.v[i] ELSE 0)

(***************************************************************************)
(* ConcatFeatures and StackFeatures (merlin_models/tf/tabular/             *)
(* aggregation.py).  The features are 2-D tensors of small integers, which *)
(* the cast to output_dtype leaves as they are.                            *)
(***************************************************************************)
ErrConcatShapes == "Exception: All features dimensions except the last one must match"
ErrStack == "InvalidArgumentError: Shapes of all inputs must match"

\* the feature names, in ascending order of Python's str
FeatureNames == <<"age", "item", "user">>
NameIndex(name) == CHOOSE i \in 1..Len(FeatureNames) : FeatureNames[i] = name
\* a < b on names
NameLess(a, b) == NameIndex(a) < NameIndex(b)

\* sorted(names)
RECURSIVE SortedInsert(_, _)
SortedInsert(x, s) ==
    IF s = <<>> THEN <<x>>
    ELSE IF NameLess(x, Head(s)) THEN <<x>> \o s
    ELSE <<Head(s)>> \o SortedInsert(x, Tail(s))
RECURSIVE sorted(_)
sorted(s) == IF s = <<>> THEN <<>> ELSE SortedInsert(Head(s), sorted(Tail(s)))

\* the axes a layer may be configured with
AggAxes == {-1, 0, 1}
AggKinds == {"concat", "stack"}

\* tf.concat(tensors, axis=-1) of 2-D tensors of the same number of rows
RECURSIVE tf_concat_last(_)
tf_concat_last(tensors) ==
    IF Len(tensors) = 1 THEN tensors[1]
    ELSE ConcatCols(tensors[1], tf_concat_last(Tail(tensors)))

\* tf.stack(tensors, axis) of 2-D tensors: they must have one shape; the
\* new dimension is the first (axis 0), the second (axis 1) or the last one
tf_stack(tensors, axis) ==
    IF \E k \in DOMAIN tensors : Shape(tensors[k]) # Shape(tensors[1])
    THEN [raised |-> ErrStack, output |-> <<>>]
    ELSE [raised |-> NoError,
          output |->
              IF axis = 0 THEN tensors
              ELSE IF axis = 1
              THEN [i \in 1..Len(tensors[1]) |->
                       [k \in DOMAIN tensors |-> tensors[k][i]]]
              ELSE [i \in 1..Len(tensors[1]) |->
                       [j \in 1..Len(tensors[1][1]) |->
                           [k \in DOMAIN tensors |-> tensors[k][i][j]]]]]

\* TabularAggregation._expand_non_sequential_features: 2-D features are not
\* sequential, nothing is expanded
expand_non_sequential_features(inputs) == inputs

\* TabularAggregation._check_concat_shapes: whether every dimension but the
\* last one is the same in all the features
check_concat_shapes(inputs) ==
    \A p \in DOMAIN inputs : Len(inputs[p][2]) = Len(inputs[1][2])

\* TabularAggregation._get_agg_output_size for 2-D features
get_agg_output_size(input_shapes, agg_dim) ==
    <<calculate_batch_size_from_input_shapes(input_shapes), agg_dim>>

\* the tensors of the features, by ascending name
SortedTensors(inputs) ==
    [k \in DOMAIN inputs |-> DictGet(inputs, sorted(DictKeys(inputs))[k])]

\* ConcatFeatures.__init__ and StackFeatures.__init__
Aggregation_init(kind, axis) == [kind |-> kind, axis |-> axis]

\* ConcatFeatures.call
ConcatFeatures_call(layer, inputs) ==
    IF ~check_concat_shapes(expand_non_sequential_features(inputs))
    THEN [raised |-> ErrConcatShapes, output |-> <<>>]
    ELSE [raised |-> NoError,
          output |-> tf_concat_last(
                         SortedTensors(expand_non_sequential_features(inputs)))]

\* ConcatFeatures.compute_output_shape
ConcatFeatures_compute_output_shape(layer, input_shapes) ==
    get_agg_output_size(
        input_shapes,
        SumSeq([p \in DOMAIN input_shapes |->
                   input_shapes[p][2][Len(input_shapes[p][2])]]))

\* StackFeatures.call
StackFeatures_call(layer, inputs) ==
    IF ~check_concat_shapes(expand_non_sequential_features(inputs))
    THEN [raised |-> ErrConcatShapes, output |-> <<>>]
    ELSE tf_stack(SortedTensors(expand_non_sequential_features(inputs)),
                  layer.axis)

\* list.insert(index, x) for an index within the list
ListInsert(s, index, x) ==
    SubSeq(s, 1, index) \o <<x>> \o SubSeq(s, index + 1, Len(s))

\* StackFeatures.compute_output_shape
StackFeatures_compute_output_shape(layer, input_shapes) ==
    LET first == DictValues(input_shapes)[1]
        output_size == get_agg_output_size(input_shapes, first[Len(first)])
    IN IF Len(output_size) = 2
       THEN IF layer.axis = -1 THEN output_size \o <<Len(input_shapes)>>
            ELSE ListInsert(output_size, layer.axis, Len(input_shapes))
       ELSE output_size

\* the insertion orders of a dictionary: every sequence of different names
KeyOrders ==
    {o \in SeqUpTo({FeatureNames[i] : i \in 1..Len(FeatureNames)},
                   Len(FeatureNames)) :
        \A p, q \in DOMAIN o : p # q => o[p] # o[q]}

\* the last dimensions of the features: 1 or 2 for all, or one more for
\* every next name
DimFamilies == {"one", "two", "byname"}
FeatureDim(name, fam) ==
    IF fam = "one" THEN 1 ELSE IF fam = "two" THEN 2 ELSE NameIndex(name)

\* the rows of a feature: b, or one more for the first name of a ragged
\* batch
FeatureBatch(name, b, ragged) == IF ragged /\ NameIndex(name) = 1 THEN b + 1 ELSE b

\* the tensor of a feature; no two features hold the same values
FeatureTensor(name, b, d) ==
    [i \in 1..b |-> [j \in 1..d |-> 100 * NameIndex(name) + 10 * i + j]]

\* the inputs of a call, inserted in the given order
FeatureInputs(order, b, fam, ragged) ==
    [p \in DOMAIN order |->
        <<order[p], FeatureTensor(order[p], FeatureBatch(order[p], b, ragged),
                                  FeatureDim(order[p], fam))>>]

\* the input_shapes of a batch, inserted in the given order
FeatureShapes(order, b, fam) ==
    [p \in DOMAIN order |-> <<order[p], <<b, FeatureDim(order[p], fam)>>>>]

NoAggCall ==
    [op |-> "none", raised |-> NoError, inputs |-> <<>>, output |-> <<>>,
     input_shapes |-> <<>>, shape |-> <<>>]

\* ConcatFeatures built with the default axis
AggInit ==
    /\ agg = Aggregation_init("concat", -1)
    /\ alast = NoAggCall

\* a new layer replaces the former one
AggNew ==
    \E kind \in AggKinds : \E axis \in AggAxes :
        /\ agg' = Aggregation_init(kind, axis)
        /\ alast' = NoAggCall
        /\ UNCHANGED <<topkVars, cdpVars, iptkVars, taskVars, dotVars, ibnsVars>>

ConcatCall ==
    /\ agg.kind = "concat"
    /\ \E order \in KeyOrders : \E b \in 1..MaxB : \E fam \in DimFamilies :
           \E ragged \in BOOLEAN :
               \E r \in {ConcatFeatures_call(agg, FeatureInputs(order, b, fam, ragged))} :
                   /\ alast' = [NoAggCall EXCEPT
                                   !.op = "call", !.raised = r.raised,
                                   !.inputs = FeatureInputs(order, b, fam, ragged),
                                   !.output = r.output]
                   /\ UNCHANGED <<agg, topkVars, cdpVars, iptkVars, taskVars, dotVars, ibnsVars>>

StackCall ==
    /\ agg.kind = "stack"
    /\ \E order \in KeyOrders : \E b \in 1..MaxB : \E fam \in DimFamilies :
           \E ragged \in BOOLEAN :
               \E r \in {StackFeatures_call(agg, FeatureInputs(order, b, fam, ragged))} :
                   /\ alast' = [NoAggCall EXCEPT
                                   !.op = "call", !.raised = r.raised,
                                   !.inputs = FeatureInputs(order, b, fam, ragged),
                                   !.output = r.output]
                   /\ UNCHANGED <<agg, topkVars, cdpVars, iptkVars, taskVars, dotVars, ibnsVars>>

ConcatComputeOutputShape ==
    /\ agg.kind = "concat"
    /\ \E order \in KeyOrders : \E b \in 1..MaxB : \E fam \in DimFamilies :
           /\ alast' = [NoAggCall EXCEPT
                           !.op = "compute_output_shape",
                           !.input_shapes = FeatureShapes(order, b, fam),
                           !.shape = ConcatFeatures_compute_output_shape(
                                         agg, FeatureShapes(order, b, fam))]
           /\ UNCHANGED <<agg, topkVars, cdpVars, iptkVars, taskVars, dotVars, ibnsVars>>

StackComputeOutputShape ==
    /\ agg.kind = "stack"
    /\ \E order \in KeyOrders : \E b \in 1..MaxB : \E fam \in DimFamilies :
           /\ alast' = [NoAggCall EXCEPT
                           !.op = "compute_output_shape",
                           !.input_shapes = FeatureShapes(order, b, fam),
                           !.shape = StackFeatures_compute_output_shape(
                                         agg, FeatureShapes(order, b, fam))]
           /\ UNCHANGED <<agg, topkVars, cdpVars, iptkVars, taskVars, dotVars, ibnsVars>>

AggNext ==
    \/ AggNew
    \/ ConcatCall
    \/ StackCall
    \/ ConcatComputeOutputShape
    \/ StackComputeOutputShape

(***************************************************************************)
(* Properties of ConcatFeatures and StackFeatures.                         *)
(***************************************************************************)
\* the tensors of a dictionary by ascending feature name
Ascending(inputs) ==
    LET names == SelectSeq(FeatureNames,
                           LAMBDA n : \E p \in DOMAIN inputs : inputs[p][1] = n)
    IN [k \in DOMAIN names |-> DictGet(inputs, names[k])]

\* 2-D tensors joined along an axis: the rows one after the other for axis
\* 0, the columns for axis 1 or -1
JoinAlong(tensors, axis) ==
    IF axis = 0 THEN Flatten(tensors)
    ELSE [i \in 1..Len(tensors[1]) |->
             Flatten([k \in DOMAIN tensors |-> tensors[k][i]])]

\* the same dictionary inserted in every order
Reorderings(inputs) ==
    {[p \in DOMAIN inputs |-> inputs[q[p]]] :
        q \in {f \in [DOMAIN inputs -> DOMAIN inputs] :
                  \A a, b \in DOMAIN inputs : a # b => f[a] # f[b]}}

\* what the layer returns for a dictionary
AggregationOutput(layer, inputs) ==
    IF layer.kind = "concat" THEN ConcatFeatures_call(layer, inputs).output
    ELSE StackFeatures_call(layer, inputs).output

\* C13: ConcatFeatures.call and StackFeatures.call combine the input
\* features in ascending order of feature name, so the output is the same
\* for any insertion order of the same name-to-tensor dictionary;
\* ConcatFeatures joins along the configured axis, and its
\* compute_output_shape reports a last dimension equal to the sum of the
\* inputs' last dimensions.
C13_AggregationByName ==
    /\ (alast.op = "call" /\ alast.raised = NoError) =>
           /\ agg.kind = "concat" =>
                  alast.output = JoinAlong(Ascending(alast.inputs), agg.axis)
           /\ agg.kind = "stack" =>
                  alast.output = tf_stack(Ascending(alast.inputs), agg.axis).output
           /\ \A other \in Reorderings(alast.inputs) :
                  AggregationOutput(agg, other) = alast.output
    /\ (alast.op = "compute_output_shape" /\ agg.kind = "concat") =>
           alast.shape[Len(alast.shape)] =
               SumSeq([p \in DOMAIN alast.input_shapes |->
                          alast.input_shapes[p][2][2]])

(***************************************************************************)
(* Specifications.  Each one runs one component and leaves the others in   *)
(* their initial state.                                                    *)
(***************************************************************************)
TopKIdle ==
    /\ topk = BruteForceTopK_init(0)
    /\ last = NoCall
    /\ loaded = NotLoaded
    /\ recommender = NoModel

CdpIdle ==
    /\ cdp = ContrastiveDotProduct_init(<<>>, TRUE)
    /\ clast = NoCdpCall

IptkIdle ==
    /\ iptk = ItemsPredictionTopK_init(0, TRUE)
    /\ ilast = NoIptkCall

TaskIdle ==
    task = [pc |-> "idle", extra_pre_call |-> None, softmax_temperature |-> 1,
            normalize |-> TRUE, prediction_call |-> <<>>, pre |-> <<>>]

DotIdle ==
    /\ dp = DotProduct_init("query", "item")
    /\ dlast = NoDotCall

IbnsIdle == nlast = NoIbnsCall

AggIdle ==
    /\ agg = Aggregation_init("concat", -1)
    /\ alast = NoAggCall

Init ==
    /\ TopKInit
    /\ CdpIdle
    /\ IptkIdle
    /\ TaskIdle
    /\ DotIdle
    /\ IbnsIdle
    /\ AggIdle

Next == TopKNext

Spec == Init /\ [][Next]_vars

InitContrastive ==
    /\ CdpInit
    /\ TopKIdle
    /\ IptkIdle
    /\ TaskIdle
    /\ DotIdle
    /\ IbnsIdle
    /\ AggIdle

SpecContrastive == InitContrastive /\ [][CdpNext]_vars

InitItemsTopK ==
    /\ IptkInit
    /\ TopKIdle
    /\ CdpIdle
    /\ TaskIdle
    /\ DotIdle
    /\ IbnsIdle
    /\ AggIdle

SpecItemsTopK == InitItemsTopK /\ [][IptkNext]_vars

InitRetrievalTask ==
    /\ TaskInit
    /\ TopKIdle
    /\ CdpIdle
    /\ IptkIdle
    /\ DotIdle
    /\ IbnsIdle
    /\ AggIdle

SpecRetrievalTask == InitRetrievalTask /\ [][TaskNext]_vars

InitDotProduct ==
    /\ DotInit
    /\ TopKIdle
    /\ CdpIdle
    /\ IptkIdle
    /\ TaskIdle
    /\ IbnsIdle
    /\ AggIdle

SpecDotProduct == InitDotProduct /\ [][DotNext]_vars

InitInBatch ==
    /\ IbnsInit
    /\ TopKIdle
    /\ CdpIdle
    /\ IptkIdle
    /\ TaskIdle
    /\ DotIdle
    /\ AggIdle

SpecInBatch == InitInBatch /\ [][IbnsNext]_vars

InitAggregation ==
    /\ AggInit
    /\ TopKIdle
    /\ CdpIdle
    /\ IptkIdle
    /\ TaskIdle
    /\ DotIdle
    /\ IbnsIdle

SpecAggregation == InitAggregation /\ [][AggNext]_vars

=============================================================================
